---- MODULE Spec2Model ----
(***************************************************************************)
(* md-echo (src/main.rs): a markdown editor with a live preview.  The      *)
(* model follows one MarkdownApp through its frames.  MarkdownApp::update  *)
(* runs once per frame, top to bottom: hotkeys, menu bar, the pending-     *)
(* action pass, the file tree, the editor, the tool-output window and the  *)
(* exit confirmation.  A frame of the model carries one input event (a     *)
(* key, a click, an edit); the part of update that reacts to it is one     *)
(* action, and a frame without input changes nothing.  A hotkey or a       *)
(* Tools-menu click only raises a pending_* flag; the pending-action pass   *)
(* of the same frame then runs as its own step, and pc is the place in     *)
(* that pass ("input": between frames).  run_external_tool blocks on its   *)
(* subprocess: the model splits it where it blocks (cmd.output()), so the  *)
(* state in which the subprocess runs (temp file on disk, child process    *)
(* alive) is a state of the model.  Every input the user, the file system  *)
(* or an external tool can give is drawn with \E.                          *)
(*                                                                         *)
(* Option<T> is a set with at most one element: None = {}, Some(x) = {x}.  *)
(***************************************************************************)
EXTENDS Integers, Sequences, FiniteSets, TLC

VARIABLES
    content,            \* MarkdownApp.content
    original_content,   \* MarkdownApp.original_content
    file_path,          \* MarkdownApp.file_path : Option<String>
    modified,           \* MarkdownApp.modified
    show_exit_confirm,  \* MarkdownApp.show_exit_confirm
    pending_new, pending_open, pending_save, pending_save_as,
    pending_exit, pending_lint, pending_format,
    tool_output,        \* MarkdownApp.tool_output : Option<String>
    show_tool_output,   \* MarkdownApp.show_tool_output
    config,             \* MarkdownApp.config (working_dir, tools)
    working_dir,        \* MarkdownApp.working_dir
    config_path,        \* MarkdownApp.config_path : Option<PathBuf>
    config_file,        \* the config file on disk: Option<its content>
    dirs,               \* the paths that are directories
    boot,               \* what load_config found at startup
    current_line,       \* MarkdownApp.current_line
    scroll_left,        \* MarkdownApp.scroll_left
    scroll_right,       \* MarkdownApp.scroll_right
    target_scroll_y,    \* the scroll offset last handed to the preview
    seen,               \* what the central panel saw in its last frame
    fs,                 \* the file system: path -> Option<file content>
    call,               \* the run_external_tool call blocked on its child
    pc,                 \* position inside MarkdownApp::update
    alive,              \* FALSE once std::process::exit(0) has been called
    ui                  \* what the step just taken showed to / got from the user

doc      == <<content, original_content, file_path, modified>>
pendings == <<pending_new, pending_open, pending_save, pending_save_as,
              pending_exit, pending_lint, pending_format>>
toolview == <<tool_output, show_tool_output>>
shell    == <<working_dir, config_path, config_file, dirs, boot>>
view     == <<current_line, scroll_left, scroll_right, target_scroll_y, seen>>
vars     == <<doc, show_exit_confirm, pendings, toolview, config, fs, call,
              pc, alive, ui, shell, view>>

----------------------------------------------------------------------------
(* Bounds of the model. *)

\* longest text (buffer or file content), in characters
MaxLen == 1

----------------------------------------------------------------------------
(* Option<T> *)

None == {}
Some(x) == {x}
IsSome(o) == o # {}
Unwrap(o) == CHOOSE x \in o : TRUE

----------------------------------------------------------------------------
(* Values. *)

\* a text is a sequence of characters.  No branch of the program looks at
\* a character other than the line break (cursor rows), so it is the alphabet
Chars == {"\n"}
Text == UNION {[1..n -> Chars] : n \in 0..MaxLen}

\* files the user can name in a dialog or see in the file tree
Paths == {"a.md", "b.md"}
\* names tempfile::Builder can hand out (suffix ".md")
TempPaths == {"tmp0.md"}
AllPaths == Paths \cup TempPaths

\* what a file dialog can return: None when it is dismissed
Picks == {None} \cup {Some(p) : p \in Paths}

Keys == {"Q", "N", "O", "S", "L", "F"}

\* outcomes of fs::write: done, refused before the file is touched, or failed
\* after File::create truncated it
WriteResults == {"ok", "denied", "truncated"}

----------------------------------------------------------------------------
(* ToolsConfig and the messages of the tool runner. *)

default_lint_command == Some(<<"rumdl", "check">>)
default_format_command == Some(<<"rumdl", "fmt">>)

\* ToolsConfig::default
DefaultTools ==
    [lint |-> default_lint_command, lint_use_open_file |-> FALSE,
     format |-> default_format_command, format_use_open_file |-> FALSE]

\* AppConfig::default (derived: working_dir None, tools default)
DefaultConfig == [working_dir |-> None, tools |-> DefaultTools]

\* what a config.toml can hold under tools.lint / tools.format: no key
\* (None: TOML has no null), an empty list, or a command
LintCommands == <<None, Some(<<>>), default_lint_command>>
FormatCommands == <<None, Some(<<>>), default_format_command>>

\* the directories of the model; "." is what initial_working_directory
\* falls back to when env::current_dir() fails
DirPaths == {"proj", "docs"}
Dot == "."

\* a config.toml as a table of its keys, an absent key being None.  The two
\* tools are configured alike (run_lint_tool reads only the lint keys and
\* run_format_tool only the format keys)
TomlDocs ==
    {[working_dir |-> w, lint |-> LintCommands[i], lint_use_open_file |-> u,
      format |-> FormatCommands[i], format_use_open_file |-> u] :
        w \in {None} \cup {Some(d) : d \in DirPaths},
        i \in DOMAIN LintCommands, u \in {None, Some(TRUE)}}

\* an empty file: valid TOML without any key
from_toml_empty ==
    [working_dir |-> None, lint |-> None, lint_use_open_file |-> None,
     format |-> None, format_use_open_file |-> None]

\* config_file_path() when ProjectDirs finds a home directory
ConfigFile == "config.toml"

\* a file that is not TOML of the AppConfig shape
Garbage == [syntax_error |-> TRUE]

\* toml::from_str::<AppConfig>: #[serde(default)] fills every absent key
\* from Default, so an absent command becomes the default command
from_toml(d) ==
    [working_dir |-> d.working_dir,
     tools |->
        [lint |-> IF d.lint = None THEN default_lint_command ELSE d.lint,
         lint_use_open_file |->
            IF d.lint_use_open_file = None THEN FALSE
            ELSE Unwrap(d.lint_use_open_file),
         format |->
            IF d.format = None THEN default_format_command ELSE d.format,
         format_use_open_file |->
            IF d.format_use_open_file = None THEN FALSE
            ELSE Unwrap(d.format_use_open_file)]]

\* toml::to_string_pretty(&AppConfig): every field that is not None is
\* written
to_toml(c) ==
    [working_dir |-> c.working_dir,
     lint |-> c.tools.lint,
     lint_use_open_file |-> Some(c.tools.lint_use_open_file),
     format |-> c.tools.format,
     format_use_open_file |-> Some(c.tools.format_use_open_file)]

\* the ToolsConfig values a config.toml can give
ToolsConfigs == {from_toml(d).tools : d \in TomlDocs}

\* what load_config found at config_file_path()
Found(path, file, read_ok) ==
    IF path = None THEN "no_path"
    ELSE IF file = None THEN "missing"
    ELSE IF ~read_ok THEN "unreadable"
    ELSE IF "syntax_error" \in DOMAIN Unwrap(file) THEN "unparsable"
    ELSE "parsed"

\* load_config: the AppConfig it returns.  legacy is the content of
\* settings.txt when it can be read, ds the existing directories
load_config(path, file, read_ok, legacy, ds) ==
    LET parsed == IF Found(path, file, read_ok) = "parsed"
                  THEN from_toml(Unwrap(file)) ELSE DefaultConfig
    IN
    IF /\ parsed.working_dir = None
       /\ path # None
       /\ legacy # None
       /\ Unwrap(legacy) \in ds
    THEN [parsed EXCEPT !.working_dir = legacy]
    ELSE parsed

\* initial_working_directory: the directory it returns; cwd is
\* env::current_dir().ok()
initial_working_directory(cfg, cwd, ds) ==
    IF cfg.working_dir # None /\ Unwrap(cfg.working_dir) \in ds
    THEN Unwrap(cfg.working_dir)
    ELSE IF cwd # None THEN Unwrap(cwd) ELSE Dot

\* the config file is left as it was
save_config_skipped(path, file, cfg, wr) == file

\* save_config: the config file afterwards.  wr is how create_dir_all and
\* fs::write end ("denied" stands for either failing)
save_config(path, file, cfg, wr) ==
    IF path = None THEN file
    ELSE CASE wr = "ok" -> Some(to_toml(cfg))
           [] wr = "denied" -> file
           [] wr = "truncated" -> Some(from_toml_empty)

NoLintMsg ==
    "No lint command configured. Add a [tools] lint entry to config.toml."
NoFormatMsg ==
    "No format command configured. Add a [tools] format entry to config.toml."
EmptyCommandMsg == "Configured tool command is empty."
SaveFirstMsg ==
    "Save before running this tool on the current file, or disable *_use_open_file."
NoFileOpenMsg ==
    "No file is currently open. Save the document first or disable *_use_open_file."
NotAFileMsg(path) == "Current file path '" \o path \o "' is not a file."
TempFailedMsg == "Failed to prepare temp file: io error"
SpawnFailedMsg(command) == "Failed to run '" \o command[1] \o "': io error"

RECURSIVE Join(_)
\* parts.join(" ")
Join(parts) ==
    IF parts = <<>> THEN ""
    ELSE IF Len(parts) = 1 THEN parts[1]
    ELSE parts[1] \o " " \o Join(Tail(parts))

\* the argv handed to the child: the command, then the target path
Argv(command, target_path) == Append(command, target_path)

format_command_for_display(command, path) == Join(Argv(command, path))

\* the report built after the child returned: command line and exit status
\* (the stdout / stderr sections depend on the tool's output alone)
ReportMsg(command, target_path, success) ==
    "$ " \o format_command_for_display(command, target_path) \o "\n"
    \o "Status: " \o (IF success THEN "exit status: 0" ELSE "exit status: 1")
    \o "\n"

FormatNote(target_path) ==
    "\nFormat note: failed to read formatter output (" \o target_path
    \o "): io error\n"

----------------------------------------------------------------------------
(* What a step showed to the user and what the user answered.  ui is       *)
(* rewritten by every step, so it always describes the step just taken.    *)

\* confirm : "yes" / "no" when the "Discard unsaved changes?" window was
\*           shown, "none" when it was not
\* prompt  : "dialog" when save_file asked for a destination, "direct" when
\*           it wrote to file_path unasked, "none" when the step saved nothing
\* click   : the key or button that ended the process
\* outcome : how the tool runner's step ended
\* io      : how the step's read (Open) or write (Save) went: "read",
\*           "read_back" for the read of the file that the step before
\*           wrote for file_path, "read_failed", "written", "write_failed",
\*           "cancelled" when the dialog was dismissed, "none" when the
\*           step did neither; "config_written" / "config_denied" when
\*           the step wrote, or failed to write, the config file
\* dir     : the folder that "Change..." handed to set_working_directory
Quiet == [confirm |-> "none", prompt |-> "none", click |-> "none",
          outcome |-> "none", io |-> "none", dir |-> None]

Answer(yes) == IF modified THEN (IF yes THEN "yes" ELSE "no") ELSE "none"

----------------------------------------------------------------------------
(* Document buffer. *)

\* a change always marks the buffer modified
is_modified_always(c, o) == TRUE

\* `self.content != self.original_content`
is_modified(c, o) == c # o

\* the window is never consulted
confirm_discard_skipped(yes) == TRUE

\* the window shows only when modified; its answer is Yes clicked this frame
confirm_discard(yes) == IF modified THEN yes ELSE TRUE

\* New empties the text and keeps the file
clear_document_keeps_path ==
    /\ content' = <<>>
    /\ original_content' = <<>>
    /\ modified' = FALSE
    /\ UNCHANGED file_path

\* the body of New
clear_document ==
    /\ content' = <<>>
    /\ original_content' = <<>>
    /\ file_path' = None
    /\ modified' = FALSE

\* a reader that drops a final line break
read_to_string_trimmed(f, path, io_ok) ==
    IF io_ok /\ IsSome(f[path])
    THEN LET data == Unwrap(f[path]) IN
         IF data # <<>> /\ data[Len(data)] = "\n"
         THEN Some(SubSeq(data, 1, Len(data) - 1)) ELSE Some(data)
    ELSE None

\* fs::read_to_string on disk f: Err when the file is absent or io fails
read_to_string(f, path, io_ok) == IF io_ok THEN f[path] ELSE None

\* a failed read empties the buffer
open_file_resets_on_error(path, io_ok) ==
    LET data == read_to_string(fs, path, io_ok) IN
    IF IsSome(data)
    THEN /\ content' = Unwrap(data)
         /\ original_content' = Unwrap(data)
         /\ file_path' = Some(path)
         /\ modified' = FALSE
    ELSE /\ content' = <<>>
         /\ modified' = is_modified(<<>>, original_content)
         /\ UNCHANGED <<original_content, file_path>>

\* the text is loaded, the saved text is not replaced
open_file_keeps_original(path, io_ok) ==
    LET data == read_to_string(fs, path, io_ok) IN
    IF IsSome(data)
    THEN /\ content' = Unwrap(data)
         /\ file_path' = Some(path)
         /\ modified' = is_modified(Unwrap(data), original_content)
         /\ UNCHANGED original_content
    ELSE UNCHANGED doc

open_file_from_path(path, io_ok) ==
    LET data == read_to_string(fs, path, io_ok) IN
    IF IsSome(data)
    THEN /\ content' = Unwrap(data)
         /\ original_content' = Unwrap(data)
         /\ file_path' = Some(path)
         /\ modified' = FALSE
    ELSE UNCHANGED doc

\* a short write: the last character does not reach the file
fs_write_short(path, data, wr) ==
    [fs EXCEPT ![path] = Some(SubSeq(data, 1, Len(data) - 1))]

\* fs::write(path, data): the disk afterwards
fs_write(path, data, wr) ==
    CASE wr = "ok" -> [fs EXCEPT ![path] = Some(data)]
      [] wr = "denied" -> fs
      [] wr = "truncated" -> [fs EXCEPT ![path] = Some(<<>>)]

\* the dialog opens for Save As only
save_prompts_only_as(save_as) == save_as

\* whether save_file opens the save dialog
save_prompts(save_as) == save_as \/ file_path = None

\* file_path is switched to the chosen path before the write is tried
save_file_path_first(save_as, pick, wr) ==
    IF save_prompts(save_as)
    THEN IF IsSome(pick)
         THEN /\ fs' = fs_write(Unwrap(pick), content, wr)
              /\ file_path' = pick
              /\ IF wr = "ok"
                 THEN /\ original_content' = content
                      /\ modified' = FALSE
                      /\ UNCHANGED content
                 ELSE UNCHANGED <<content, original_content, modified>>
         ELSE UNCHANGED <<doc, fs>>
    ELSE IF IsSome(file_path)
         THEN /\ fs' = fs_write(Unwrap(file_path), content, wr)
              /\ IF wr = "ok"
                 THEN /\ original_content' = content
                      /\ modified' = FALSE
                      /\ UNCHANGED <<content, file_path>>
                 ELSE UNCHANGED doc
         ELSE UNCHANGED <<doc, fs>>

\* pick is the dialog's answer (None = cancelled), wr how fs::write ends
save_file(save_as, pick, wr) ==
    IF save_prompts(save_as)
    THEN IF IsSome(pick)
         THEN /\ fs' = fs_write(Unwrap(pick), content, wr)
              /\ IF wr = "ok"
                 THEN /\ file_path' = pick
                      /\ original_content' = content
                      /\ modified' = FALSE
                      /\ UNCHANGED content
                 ELSE UNCHANGED doc
         ELSE UNCHANGED <<doc, fs>>
    ELSE IF IsSome(file_path)
         THEN /\ fs' = fs_write(Unwrap(file_path), content, wr)
              /\ IF wr = "ok"
                 THEN /\ original_content' = content
                      /\ modified' = FALSE
                      /\ UNCHANGED <<content, file_path>>
                 ELSE UNCHANGED doc
         ELSE UNCHANGED <<doc, fs>>

\* the answers the "Discard unsaved changes?" window can give: it is shown
\* only when modified
Answers == IF modified THEN BOOLEAN ELSE {TRUE}

\* what the dialog of an Open can return once the step has got to it
OpenPicks(go) == IF go THEN Picks ELSE {None}
\* how the read of the picked file can go
ReadResults(go, pick) == IF go /\ IsSome(pick) THEN BOOLEAN ELSE {TRUE}

\* what the dialog of a save_file can return (it is not shown when the
\* save goes to file_path), and how the write can go if there is one
SavePicks(save_as) == IF save_prompts(save_as) THEN Picks ELSE {None}
WritesOf(save_as, pick) ==
    IF save_prompts(save_as) /\ pick = None THEN {"ok"} ELSE WriteResults

\* how an Open went, for ui.io: go is whether the step got as far as the
\* file (the dialog's pick, or the file clicked in the tree)
Opened(go, pick, io_ok) ==
    IF ~go THEN "none"
    ELSE IF pick = None THEN "cancelled"
    ELSE IF read_to_string(fs, Unwrap(pick), io_ok) = None
    THEN "read_failed"
    ELSE IF ui.io = "written" /\ pick = file_path THEN "read_back"
    ELSE "read"

\* how a save_file went, for ui.io
Saved(save_as, pick, wr) ==
    IF save_prompts(save_as) /\ pick = None THEN "cancelled"
    ELSE IF wr = "ok" THEN "written"
    ELSE "write_failed"

----------------------------------------------------------------------------
(* External tool runner. *)

NoCall == [active |-> FALSE]

\* cmd.current_dir is never called
current_dir_inherited == None

\* the directory the child is started in; None: cmd.current_dir is not
\* called and the child inherits the process's own
current_dir == IF working_dir \in dirs THEN Some(working_dir) ELSE None

\* the message is stored, the window is not reopened
show_tool_message_hidden(message) ==
    /\ tool_output' = Some(message)
    /\ UNCHANGED show_tool_output

show_tool_message(message) ==
    /\ tool_output' = Some(message)
    /\ show_tool_output' = TRUE

\* the unsaved-changes test is missing
refusal_stale(command, use_current_file) ==
    IF command = <<>> THEN Some("empty_command")
    ELSE IF ~use_current_file THEN None
    ELSE IF file_path = None THEN Some("no_file_open")
    ELSE IF fs[Unwrap(file_path)] = None THEN Some("not_a_file")
    ELSE None

\* the empty-command test comes after the tests on the open file
refusal_reordered(command, use_current_file) ==
    IF use_current_file /\ modified THEN Some("save_first")
    ELSE IF use_current_file /\ file_path = None THEN Some("no_file_open")
    ELSE IF use_current_file /\ fs[Unwrap(file_path)] = None
    THEN Some("not_a_file")
    ELSE IF command = <<>> THEN Some("empty_command")
    ELSE None

\* why run_external_tool returns before it has a target (None: it goes on)
refusal(command, use_current_file) ==
    IF command = <<>> THEN Some("empty_command")
    ELSE IF ~use_current_file THEN None
    ELSE IF modified THEN Some("save_first")
    ELSE IF file_path = None THEN Some("no_file_open")
    ELSE IF fs[Unwrap(file_path)] = None THEN Some("not_a_file")
    ELSE None

refusal_message(kind) ==
    CASE kind = "empty_command" -> EmptyCommandMsg
      [] kind = "save_first" -> SaveFirstMsg
      [] kind = "no_file_open" -> NoFileOpenMsg
      [] kind = "not_a_file" -> NotAFileMsg(Unwrap(file_path))

\* the temp file is created and never written
create_temp_empty(f, t) == [f EXCEPT ![t] = Some(<<>>)]

\* a fresh temp file holding the buffer, on disk f under name t
create_temp_markdown(f, t) == [f EXCEPT ![t] = Some(content)]

\* the temp file is kept (persisted) instead of removed
drop_temp_file_leak(f, temp_file) == f

\* NamedTempFile dropped: its file is removed
drop_temp_file(f, temp_file) ==
    IF IsSome(temp_file) THEN [f EXCEPT ![Unwrap(temp_file)] = None] ELSE f

\* the exit status is not looked at
rereads_always(modifies_content, success) == modifies_content

\* the target is read back after any successful run
rereads_on_success(modifies_content, success) == success

\* whether the target is read back after the child returned
rereads(modifies_content, success) == modifies_content /\ success

\* the formatted text is taken as the saved text
reconcile_as_saved(new_content) ==
    IF IsSome(new_content) /\ Unwrap(new_content) # content
    THEN /\ content' = Unwrap(new_content)
         /\ original_content' = Unwrap(new_content)
         /\ modified' = FALSE
         /\ UNCHANGED file_path
    ELSE UNCHANGED doc

\* new_content is the result of reading the target back
reconcile(new_content) ==
    IF IsSome(new_content) /\ Unwrap(new_content) # content
    THEN /\ content' = Unwrap(new_content)
         /\ modified' = is_modified(Unwrap(new_content), original_content)
         /\ UNCHANGED <<original_content, file_path>>
    ELSE UNCHANGED doc

\* run_external_tool up to cmd.output(): tmp is the temp file created
\* (None = creation failed), spawn_ok whether the child could be started,
\* resume the place in update the call returns to
run_external_tool(tool, command, modifies_content, use_current_file, tmp, spawn_ok, resume) ==
    LET no == refusal(command, use_current_file)
        temp_file == IF use_current_file THEN None ELSE tmp
        target_path == IF use_current_file THEN Unwrap(file_path)
                       ELSE Unwrap(tmp)
        disk == IF IsSome(temp_file)
                THEN create_temp_markdown(fs, Unwrap(temp_file)) ELSE fs
    IN
    /\ UNCHANGED doc
    /\ IF IsSome(no)
       THEN /\ show_tool_message(refusal_message(Unwrap(no)))
            /\ ui' = [Quiet EXCEPT !.outcome = Unwrap(no)]
            /\ UNCHANGED <<fs, call>>
            /\ pc' = resume
       ELSE IF ~use_current_file /\ tmp = None
       THEN /\ show_tool_message(TempFailedMsg)
            /\ ui' = [Quiet EXCEPT !.outcome = "temp_failed"]
            /\ UNCHANGED <<fs, call>>
            /\ pc' = resume
       ELSE IF ~spawn_ok
       THEN /\ show_tool_message(SpawnFailedMsg(command))
            /\ ui' = [Quiet EXCEPT !.outcome = "spawn_failed"]
            /\ fs' = drop_temp_file(disk, temp_file)
            /\ UNCHANGED call
            /\ pc' = resume
       ELSE /\ call' = [active |-> TRUE, tool |-> tool,
                        argv |-> Argv(command, target_path),
                        cwd |-> current_dir,
                        command |-> command,
                        modifies_content |-> modifies_content,
                        target_path |-> target_path,
                        temp_file |-> temp_file,
                        resume |-> resume]
            /\ fs' = disk
            /\ ui' = [Quiet EXCEPT !.outcome = "spawned"]
            /\ UNCHANGED toolview
            /\ pc' = "tool_wait"

----------------------------------------------------------------------------
(* MarkdownApp::update, one frame. *)

PendingPcs == <<"pend_exit", "pend_new", "pend_open", "pend_save",
                "pend_save_as", "pend_lint", "pend_format">>

\* the pass is left out: the frame goes on to its widgets
pending_from_skipped(i, flags) == "input"

\* the pending-action pass tests its flags in the order of PendingPcs; flags
\* is the seven flags in that order.  The next place, from the i-th test on,
\* where something happens: a test whose flag is false falls through.
pending_from(i, flags) ==
    IF \E j \in i..Len(PendingPcs) : flags[j]
    THEN PendingPcs[CHOOSE j \in i..Len(PendingPcs) :
                       flags[j] /\ \A k \in i..(j - 1) : ~flags[k]]
    ELSE "input"

\* ctx.input with Ctrl held: the key that went down in this frame and the
\* Shift state
Hotkeys ==
    /\ alive /\ pc = "input"
    /\ \E key \in Keys, shift \in BOOLEAN :
        /\ show_exit_confirm' = (show_exit_confirm \/ (key = "Q" /\ modified))
        /\ pending_exit' = (pending_exit \/ (key = "Q" /\ ~modified))
        /\ pending_new' = (pending_new \/ key = "N")
        /\ pending_open' = (pending_open \/ key = "O")
        /\ pending_save_as' = (pending_save_as \/ (key = "S" /\ shift))
        /\ pending_save' = (pending_save \/ (key = "S" /\ ~shift))
        /\ pending_lint' = (pending_lint \/ (key = "L" /\ shift))
        /\ pending_format' = (pending_format \/ (key = "F" /\ shift))
    /\ pc' = pending_from(1, <<pending_exit', pending_new', pending_open',
                               pending_save', pending_save_as',
                               pending_lint', pending_format'>>)
    /\ ui' = Quiet
    /\ UNCHANGED <<doc, toolview, config, fs, call, alive>>
    /\ UNCHANGED <<shell, view>>

\* what every menu-bar step leaves alone
menu_frame ==
    UNCHANGED <<pending_new, pending_open, pending_save, pending_save_as,
                pending_exit, toolview, config, call, shell, view>>

\* File > New
MenuNew ==
    /\ alive /\ pc = "input"
    /\ \E yes \in Answers :
        /\ ui' = [Quiet EXCEPT !.confirm = Answer(yes)]
        /\ IF confirm_discard(yes) THEN clear_document ELSE UNCHANGED doc
    /\ menu_frame
    /\ UNCHANGED <<fs, show_exit_confirm, alive, pending_lint,
                   pending_format, pc>>

\* File > Open
MenuOpen ==
    /\ alive /\ pc = "input"
    /\ \E yes \in Answers :
       \E pick \in OpenPicks(confirm_discard(yes)) :
       \E io_ok \in ReadResults(confirm_discard(yes), pick) :
        /\ ui' = [Quiet EXCEPT !.confirm = Answer(yes),
                                !.io = Opened(confirm_discard(yes), pick,
                                              io_ok)]
        /\ IF confirm_discard(yes) /\ IsSome(pick)
           THEN open_file_from_path(Unwrap(pick), io_ok)
           ELSE UNCHANGED doc
    /\ menu_frame
    /\ UNCHANGED <<fs, show_exit_confirm, alive, pending_lint,
                   pending_format, pc>>

\* how the step's save went to its destination, for ui.prompt
Prompted(save_as) == IF save_prompts(save_as) THEN "dialog" ELSE "direct"

\* File > Save
MenuSave ==
    /\ alive /\ pc = "input"
    /\ \E pick \in SavePicks(FALSE) : \E wr \in WritesOf(FALSE, pick) :
        /\ ui' = [Quiet EXCEPT !.prompt = Prompted(FALSE),
                                !.io = Saved(FALSE, pick, wr)]
        /\ save_file(FALSE, pick, wr)
    /\ menu_frame
    /\ UNCHANGED <<show_exit_confirm, alive, pending_lint, pending_format,
                   pc>>

\* File > Save As...
MenuSaveAs ==
    /\ alive /\ pc = "input"
    /\ \E pick \in SavePicks(TRUE) : \E wr \in WritesOf(TRUE, pick) :
        /\ ui' = [Quiet EXCEPT !.prompt = Prompted(TRUE),
                                !.io = Saved(TRUE, pick, wr)]
        /\ save_file(TRUE, pick, wr)
    /\ menu_frame
    /\ UNCHANGED <<show_exit_confirm, alive, pending_lint, pending_format,
                   pc>>

\* the process is left whatever the buffer holds
exit_at_once_always == TRUE

\* whether Exit leaves the process without asking
exit_at_once == ~modified

\* File > Exit
MenuExit ==
    /\ alive /\ pc = "input"
    /\ IF exit_at_once
       THEN /\ alive' = FALSE
            /\ ui' = [Quiet EXCEPT !.click = "Exit"]
            /\ UNCHANGED show_exit_confirm
       ELSE /\ show_exit_confirm' = TRUE
            /\ ui' = Quiet
            /\ UNCHANGED alive
    /\ menu_frame
    /\ UNCHANGED <<doc, fs, pending_lint, pending_format, pc>>

\* Tools > Lint Markdown
MenuLint ==
    /\ alive /\ pc = "input"
    /\ pending_lint' = TRUE
    /\ pc' = pending_from(1, <<pending_exit, pending_new, pending_open,
                               pending_save, pending_save_as, TRUE,
                               pending_format>>)
    /\ ui' = Quiet
    /\ menu_frame
    /\ UNCHANGED <<doc, fs, show_exit_confirm, alive, pending_format>>

\* Tools > Format Markdown
MenuFormat ==
    /\ alive /\ pc = "input"
    /\ pending_format' = TRUE
    /\ pc' = pending_from(1, <<pending_exit, pending_new, pending_open,
                               pending_save, pending_save_as, pending_lint,
                               TRUE>>)
    /\ ui' = Quiet
    /\ menu_frame
    /\ UNCHANGED <<doc, fs, show_exit_confirm, alive, pending_lint>>

\* the flags as they stand once the i-th test has cleared its own
cleared(i) ==
    [j \in 1..Len(PendingPcs) |->
        IF j = i THEN FALSE
        ELSE <<pending_exit, pending_new, pending_open, pending_save,
               pending_save_as, pending_lint, pending_format>>[j]]

PendingExit ==
    /\ alive /\ pc = "pend_exit"
    /\ pending_exit' = FALSE
    /\ alive' = FALSE
    /\ ui' = [Quiet EXCEPT !.click = "Ctrl+Q"]
    /\ UNCHANGED <<doc, show_exit_confirm, pending_new, pending_open,
                   pending_save, pending_save_as, pending_lint,
                   pending_format, toolview, config, fs, call, pc>>
    /\ UNCHANGED <<shell, view>>

PendingNew ==
    /\ alive /\ pc = "pend_new"
    /\ pending_new' = FALSE
    /\ \E yes \in Answers :
        /\ ui' = [Quiet EXCEPT !.confirm = Answer(yes)]
        /\ IF confirm_discard(yes) THEN clear_document ELSE UNCHANGED doc
    /\ pc' = pending_from(3, cleared(2))
    /\ UNCHANGED <<show_exit_confirm, pending_open, pending_save,
                   pending_save_as, pending_exit, pending_lint,
                   pending_format, toolview, config, fs, call, alive>>
    /\ UNCHANGED <<shell, view>>

PendingOpen ==
    /\ alive /\ pc = "pend_open"
    /\ pending_open' = FALSE
    /\ \E yes \in Answers :
       \E pick \in OpenPicks(confirm_discard(yes)) :
       \E io_ok \in ReadResults(confirm_discard(yes), pick) :
        /\ ui' = [Quiet EXCEPT !.confirm = Answer(yes),
                                !.io = Opened(confirm_discard(yes), pick,
                                              io_ok)]
        /\ IF confirm_discard(yes) /\ IsSome(pick)
           THEN open_file_from_path(Unwrap(pick), io_ok)
           ELSE UNCHANGED doc
    /\ pc' = pending_from(4, cleared(3))
    /\ UNCHANGED <<show_exit_confirm, pending_new, pending_save,
                   pending_save_as, pending_exit, pending_lint,
                   pending_format, toolview, config, fs, call, alive>>
    /\ UNCHANGED <<shell, view>>

PendingSave ==
    /\ alive /\ pc = "pend_save"
    /\ pending_save' = FALSE
    /\ \E pick \in SavePicks(FALSE) : \E wr \in WritesOf(FALSE, pick) :
        /\ ui' = [Quiet EXCEPT !.prompt = Prompted(FALSE),
                                !.io = Saved(FALSE, pick, wr)]
        /\ save_file(FALSE, pick, wr)
    /\ pc' = pending_from(5, cleared(4))
    /\ UNCHANGED <<show_exit_confirm, pending_new, pending_open,
                   pending_save_as, pending_exit, pending_lint,
                   pending_format, toolview, config, call, alive>>
    /\ UNCHANGED <<shell, view>>

PendingSaveAs ==
    /\ alive /\ pc = "pend_save_as"
    /\ pending_save_as' = FALSE
    /\ \E pick \in SavePicks(TRUE) : \E wr \in WritesOf(TRUE, pick) :
        /\ ui' = [Quiet EXCEPT !.prompt = Prompted(TRUE),
                                !.io = Saved(TRUE, pick, wr)]
        /\ save_file(TRUE, pick, wr)
    /\ pc' = pending_from(6, cleared(5))
    /\ UNCHANGED <<show_exit_confirm, pending_new, pending_open,
                   pending_save, pending_exit, pending_lint,
                   pending_format, toolview, config, call, alive>>
    /\ UNCHANGED <<shell, view>>

\* a name tempfile can still hand out, or None when creating the file fails
TempChoices == {None} \cup {Some(t) : t \in {u \in TempPaths : fs[u] = None}}

\* run_lint_tool
run_lint_tool(tmp, spawn_ok, resume) ==
    IF IsSome(config.tools.lint)
    THEN run_external_tool("lint", Unwrap(config.tools.lint), FALSE,
                           config.tools.lint_use_open_file, tmp, spawn_ok,
                           resume)
    ELSE /\ show_tool_message(NoLintMsg)
         /\ ui' = [Quiet EXCEPT !.outcome = "no_command"]
         /\ pc' = resume
         /\ UNCHANGED <<doc, fs, call>>

\* run_format_tool
run_format_tool(tmp, spawn_ok, resume) ==
    IF IsSome(config.tools.format)
    THEN run_external_tool("format", Unwrap(config.tools.format), TRUE,
                           config.tools.format_use_open_file, tmp, spawn_ok,
                           resume)
    ELSE /\ show_tool_message(NoFormatMsg)
         /\ ui' = [Quiet EXCEPT !.outcome = "no_command"]
         /\ pc' = resume
         /\ UNCHANGED <<doc, fs, call>>

PendingLint ==
    /\ alive /\ pc = "pend_lint"
    /\ pending_lint' = FALSE
    /\ \E tmp \in TempChoices, spawn_ok \in BOOLEAN :
        run_lint_tool(tmp, spawn_ok, pending_from(7, cleared(6)))
    /\ UNCHANGED <<show_exit_confirm, pending_new, pending_open,
                   pending_save, pending_save_as, pending_exit,
                   pending_format, config, alive>>
    /\ UNCHANGED <<shell, view>>

PendingFormat ==
    /\ alive /\ pc = "pend_format"
    /\ pending_format' = FALSE
    /\ \E tmp \in TempChoices, spawn_ok \in BOOLEAN :
        run_format_tool(tmp, spawn_ok, "input")
    /\ UNCHANGED <<show_exit_confirm, pending_new, pending_open,
                   pending_save, pending_save_as, pending_exit,
                   pending_lint, config, alive>>
    /\ UNCHANGED <<shell, view>>

\* how the step that ends a tool run is named in ui.outcome
return_outcome(modifies_content, success, new_content) ==
    IF ~success THEN "exit_failure"
    ELSE IF ~modifies_content THEN "reported"
    ELSE IF new_content = None THEN "reread_failed"
    ELSE IF Unwrap(new_content) # content THEN "replaced"
    ELSE "same"

\* cmd.output() returns: the child has left its target as `left` (None: it
\* removed it) and exited with `success`; the rest of run_external_tool runs
ToolReturnsWith(success, io_ok, left) ==
    /\ alive /\ pc = "tool_wait" /\ call.active
    /\ LET disk == [fs EXCEPT ![call.target_path] = left]
           reread == rereads(call.modifies_content, success)
           new_content == IF reread
                          THEN read_to_string(disk, call.target_path, io_ok)
                          ELSE None
           report == ReportMsg(call.command, call.target_path, success)
       IN
       /\ IF reread THEN reconcile(new_content) ELSE UNCHANGED doc
       /\ show_tool_message(
              IF reread /\ new_content = None
              THEN report \o FormatNote(call.target_path) ELSE report)
       /\ fs' = drop_temp_file(disk, call.temp_file)
       /\ ui' = [Quiet EXCEPT !.outcome =
                    return_outcome(call.modifies_content, success,
                                   new_content)]
    /\ call' = NoCall
    /\ pc' = call.resume
    /\ UNCHANGED <<show_exit_confirm, pendings, config, alive>>
    /\ UNCHANGED <<shell, view>>

\* what the child can leave where its target was
Leavings == {None} \cup {Some(t) : t \in Text}

ToolReturns ==
    \E success \in BOOLEAN, io_ok \in BOOLEAN, left \in Leavings :
        ToolReturnsWith(success, io_ok, left)

\* the directory is switched to whatever was handed in
set_working_directory_unchecked(new_dir, wr) ==
    /\ working_dir' = new_dir
    /\ config' = [config EXCEPT !.working_dir = Some(new_dir)]
    /\ config_file' = save_config(config_path, config_file, config', wr)

\* wr is how save_config's write ends
set_working_directory(new_dir, wr) ==
    IF new_dir \in dirs
    THEN /\ working_dir' = new_dir
         /\ config' = [config EXCEPT !.working_dir = Some(new_dir)]
         /\ config_file' = save_config(config_path, config_file, config', wr)
    ELSE UNCHANGED <<working_dir, config, config_file>>

\* what pick_folder can return: None when it is dismissed, a directory, or
\* a path that is no directory (any more)
DirPicks == {None} \cup {Some(d) : d \in DirPaths \cup {"a.md"}}

\* how the config write of one step can end: it is tried only for a valid
\* directory and a known config path
ConfigWrites(pick) ==
    IF IsSome(pick) /\ Unwrap(pick) \in dirs /\ config_path # None
    THEN {"ok", "denied"} ELSE {"ok"}

\* how the step's config write went
ConfigSaved(pick, wr) ==
    IF IsSome(pick) /\ Unwrap(pick) \in dirs /\ config_path # None
    THEN (IF wr = "ok" THEN "config_written" ELSE "config_denied")
    ELSE "none"

\* show_file_tree: the "Change..." button
ChangeWorkingDir ==
    /\ alive /\ pc = "input"
    /\ \E pick \in DirPicks :
       \E wr \in ConfigWrites(pick) :
        /\ ui' = [Quiet EXCEPT !.dir = pick, !.io = ConfigSaved(pick, wr)]
        /\ IF IsSome(pick)
           THEN set_working_directory(Unwrap(pick), wr)
           ELSE UNCHANGED <<working_dir, config, config_file>>
    /\ UNCHANGED <<doc, show_exit_confirm, pendings, toolview, fs, call, pc,
                   alive, config_path, dirs, boot, view>>

\* show_file_tree / render_directory: a click on one of the listed files;
\* the tree is drawn only while working_dir is a directory
FileTree ==
    /\ alive /\ pc = "input"
    /\ working_dir \in dirs
    /\ \E file \in {p \in Paths : IsSome(fs[p])}, yes \in Answers :
       \E io_ok \in ReadResults(confirm_discard(yes), Some(file)) :
        /\ ui' = [Quiet EXCEPT !.confirm = Answer(yes),
                                !.io = Opened(~modified \/ confirm_discard(yes),
                                              Some(file), io_ok)]
        /\ IF ~modified \/ confirm_discard(yes)
           THEN open_file_from_path(file, io_ok)
           ELSE UNCHANGED doc
    /\ UNCHANGED <<show_exit_confirm, pendings, toolview, config, fs, call,
                   pc, alive>>
    /\ UNCHANGED <<shell, view>>

\* what one frame of typing can turn text c into
Edits(c) ==
    (IF Len(c) < MaxLen THEN {Append(c, ch) : ch \in Chars} ELSE {})
    \cup (IF Len(c) > 0 THEN {SubSeq(c, 1, Len(c) - 1)} ELSE {})

\* the TextEdit: response.changed() recomputes modified.  The frame's view
\* fields, which only the central panel reads, are in CentralPanel
Editor ==
    /\ alive /\ pc = "input"
    /\ \E new \in Edits(content) :
        /\ content' = new
        /\ modified' = is_modified(new, original_content)
        /\ UNCHANGED <<original_content, file_path>>
    /\ ui' = Quiet
    /\ UNCHANGED <<show_exit_confirm, pendings, toolview, config, fs, call,
                   pc, alive>>
    /\ UNCHANGED <<shell, view>>

\* the row is taken from whatever cursor the TextEdit reports
record_line_unfocused(focus, cursor) ==
    IF IsSome(cursor) THEN Unwrap(cursor) ELSE current_line

\* current_line after the editor was drawn: the primary cursor's row when
\* the editor has focus and reports a cursor
record_line(focus, cursor) ==
    IF focus /\ IsSome(cursor) THEN Unwrap(cursor) ELSE current_line

\* ui.text_style_height(Body), in whole pixels
LineHeights == {14, 18}

\* scroll.state.offset.y of a scroll area after it was drawn
Offsets == {0, 14}

\* the texts a frame can leave in the editor: typing needs focus
Typed(focus) == IF focus THEN {content} \cup Edits(content) ELSE {content}

\* the number of rows the editor lays text c out in: one more than its
\* line breaks
Lines(c) == 1 + Cardinality({i \in 1..Len(c) : c[i] = "\n"})

\* editor_output.cursor_range of a frame that shows text c: a focused
\* TextEdit reports its cursor, whose row is one of the rows of c
Cursors(focus, c) ==
    (IF focus THEN {} ELSE {None}) \cup {Some(r) : r \in 0..(Lines(c) - 1)}

\* the central panel of one frame: the editor on the left, then the preview
\* on the right
CentralPanel ==
    /\ alive /\ pc = "input"
    /\ \E focus \in BOOLEAN :
       \E new \in Typed(focus) :
       \E cursor \in Cursors(focus, new) :
       \E line_height \in LineHeights, left \in Offsets, right \in Offsets :
        /\ content' = new
        /\ modified' = IF new # content
                       THEN is_modified(new, original_content) ELSE modified
        /\ current_line' = record_line(focus, cursor)
        /\ scroll_left' = left
        /\ target_scroll_y' = current_line' * line_height
        /\ scroll_right' = right
        /\ seen' = [focus |-> focus, cursor |-> cursor,
                    line_height |-> line_height,
                    row |-> IF focus THEN Unwrap(cursor) ELSE seen.row]
    /\ ui' = Quiet
    /\ UNCHANGED <<original_content, file_path, show_exit_confirm, pendings,
                   toolview, config, fs, call, pc, alive, shell>>

\* the "Tool Output" window: its close button
ToolOutputWindow ==
    /\ alive /\ pc = "input"
    /\ show_tool_output
    /\ show_tool_output' = FALSE
    /\ ui' = Quiet
    /\ UNCHANGED <<doc, show_exit_confirm, pendings, tool_output, config, fs,
                   call, pc, alive>>
    /\ UNCHANGED <<shell, view>>

ExitButtons == {"Save and Exit", "Discard and Exit", "Cancel"}

\* the "Unsaved Changes" window shown while show_exit_confirm: its buttons
ExitConfirm ==
    /\ alive /\ pc = "input"
    /\ show_exit_confirm
    /\ \E click \in ExitButtons :
        CASE click = "Save and Exit" ->
               /\ \E pick \in SavePicks(FALSE) :
                  \E wr \in WritesOf(FALSE, pick) :
                    /\ ui' = [Quiet EXCEPT !.click = click,
                                           !.prompt = Prompted(FALSE),
                                           !.io = Saved(FALSE, pick, wr)]
                    /\ save_file(FALSE, pick, wr)
               /\ alive' = FALSE
               /\ UNCHANGED show_exit_confirm
          [] click = "Discard and Exit" ->
               /\ alive' = FALSE
               /\ ui' = [Quiet EXCEPT !.click = click]
               /\ UNCHANGED <<doc, fs, show_exit_confirm>>
          [] click = "Cancel" ->
               /\ show_exit_confirm' = FALSE
               /\ ui' = Quiet
               /\ UNCHANGED <<doc, fs, alive>>
    /\ UNCHANGED <<pendings, toolview, config, call, pc>>
    /\ UNCHANGED <<shell, view>>

----------------------------------------------------------------------------
(* main and MarkdownApp::default. *)

\* the disks the program can start on: any files under Paths, no temp file
Disks ==
    {f \in [AllPaths -> {None} \cup {Some(t) : t \in Text}] :
        \A t \in TempPaths : f[t] = None}

\* nothing has been drawn yet.  seen.row is the primary cursor row of the
\* last frame in which the editor had focus
NoFrame == [focus |-> FALSE, cursor |-> None, line_height |-> 0, row |-> 0]

\* main and MarkdownApp::default for one startup s: the environment
\* (s.path, s.file, s.read_ok, s.legacy, s.cwd, s.dirs, s.wr), the disk
\* s.disk and the optional CLI path s.arg
Startup(s) ==
    LET loaded == load_config(s.path, s.file, s.read_ok, s.legacy, s.dirs)
        dir == initial_working_directory(loaded, s.cwd, s.dirs)
        cfg == [loaded EXCEPT !.working_dir = Some(dir)]
        data == IF IsSome(s.arg)
                THEN read_to_string(s.disk, Unwrap(s.arg), s.arg_ok)
                ELSE None
    IN
    /\ fs = s.disk
    /\ dirs = s.dirs
    /\ config = cfg
    /\ working_dir = dir
    /\ config_path = s.path
    /\ config_file = IF s.path # None /\ s.file = None
                     THEN save_config(s.path, s.file, cfg, s.wr)
                     ELSE s.file
    /\ boot = [found |-> Found(s.path, s.file, s.read_ok),
               saved |-> IF s.path # None /\ s.file = None
                         THEN s.wr ELSE "none"]
    /\ IF IsSome(data)
       THEN /\ content = Unwrap(data)
            /\ original_content = Unwrap(data)
            /\ file_path = s.arg
       ELSE /\ content = <<>>
            /\ original_content = <<>>
            /\ file_path = None
    /\ modified = FALSE
    /\ show_exit_confirm = FALSE
    /\ pending_new = FALSE /\ pending_open = FALSE /\ pending_save = FALSE
    /\ pending_save_as = FALSE /\ pending_exit = FALSE
    /\ pending_lint = FALSE /\ pending_format = FALSE
    /\ tool_output = None
    /\ show_tool_output = FALSE
    /\ current_line = 0
    /\ scroll_left = 0
    /\ scroll_right = 0
    /\ target_scroll_y = 0
    /\ seen = NoFrame
    /\ call = NoCall
    /\ pc = "input"
    /\ alive = TRUE
    /\ ui = Quiet

\* the startups of the document and tool checks: any disk and CLI path, a
\* config.toml that an earlier run wrote, and "proj" as the directory
DocStartups ==
    [path : {Some(ConfigFile)},
     file : {Some(to_toml([working_dir |-> Some("proj"), tools |-> t])) :
                t \in ToolsConfigs},
     read_ok : {TRUE}, legacy : {None}, cwd : {Some("proj")},
     dirs : {{"proj"}}, wr : {"ok"},
     disk : Disks, arg : Picks, arg_ok : BOOLEAN]

Init == \E s \in DocStartups : Startup(s)

Next ==
    \/ Hotkeys
    \/ MenuNew
    \/ MenuOpen
    \/ MenuSave
    \/ MenuSaveAs
    \/ MenuExit
    \/ MenuLint
    \/ MenuFormat
    \/ PendingExit
    \/ PendingNew
    \/ PendingOpen
    \/ PendingSave
    \/ PendingSaveAs
    \/ PendingLint
    \/ PendingFormat
    \/ ToolReturns
    \/ FileTree
    \/ ChangeWorkingDir
    \/ Editor
    \/ ToolOutputWindow
    \/ ExitConfirm

Spec == Init /\ [][Next]_vars

\* the startups of the configuration checks: every way load_config can find
\* the config file and settings.txt, with or without a current directory,
\* on a disk with one document
ShellStartups ==
    [path : {None, Some(ConfigFile)},
     file : {None, Some(Garbage)} \cup {Some(d) : d \in TomlDocs},
     read_ok : BOOLEAN, legacy : {None, Some("docs")},
     cwd : {None, Some("proj")},
     dirs : {{"proj"}, {"proj", "docs"}}, wr : {"ok", "denied"},
     disk : {[p \in AllPaths |-> IF p = "a.md" THEN Some(<<>>) ELSE None]},
     arg : {None, Some("a.md")}, arg_ok : {TRUE}]

ShellInit == \E s \in ShellStartups : Startup(s)

\* the working directory, the config file and the tools that read them
ShellNext ==
    \/ ChangeWorkingDir
    \/ MenuLint
    \/ MenuFormat
    \/ PendingLint
    \/ PendingFormat
    \/ ToolReturns
    \/ ToolOutputWindow

ShellSpec == ShellInit /\ [][ShellNext]_vars

\* the startups of the view checks: any document, the default configuration
ViewStartups ==
    {s \in DocStartups :
        s.file = Some(to_toml([working_dir |-> Some("proj"),
                               tools |-> DefaultTools]))}

ViewInit == \E s \in ViewStartups : Startup(s)

\* the central panel, and the steps that replace the buffer it shows
ViewNext ==
    \/ CentralPanel
    \/ MenuNew
    \/ FileTree

ViewSpec == ViewInit /\ [][ViewNext]_vars

----------------------------------------------------------------------------
(* Properties. *)

\* the tool whose pending flag the pass is about to serve
ToolAt == IF pc = "pend_lint" THEN "lint" ELSE "format"
\* the pass is at run_lint_tool / run_format_tool
Requested == alive /\ pc \in {"pend_lint", "pend_format"}
CommandOf(tool) ==
    IF tool = "lint" THEN config.tools.lint ELSE config.tools.format
UseOpenFile(tool) ==
    IF tool = "lint" THEN config.tools.lint_use_open_file
    ELSE config.tools.format_use_open_file
\* run_external_tool is called in this step
RunsTool == Requested /\ IsSome(CommandOf(ToolAt))
\* the step went as far as cmd.output()
SpawnTried == ui'.outcome \in {"spawned", "spawn_failed"}

\* C1: at the end of every frame, modified is true exactly when content
\* differs from original_content.
C1_ModifiedIffDiffers ==
    pc = "input" => (modified <=> content # original_content)

\* a format run has put the buffer back to the saved text: modified is
\* recomputed to false
C1_Witness ==
    /\ pc = "input" /\ alive
    /\ ui.outcome = "replaced"
    /\ ~modified
    /\ content = original_content

\* steps that ask to drop the buffer: New and Open (menu, hotkey), a click
\* in the file tree
DestructiveRequest ==
    MenuNew \/ MenuOpen \/ PendingNew \/ PendingOpen \/ FileTree
\* steps that ask to leave: a hotkey step (Ctrl+Q among them), File > Exit
ExitRequest == MenuExit \/ Hotkeys

\* New, Open and the file tree drop the buffer on Yes only, and never end
\* the process
C2_Discards ==
    /\ alive'
    /\ ui'.confirm = "no" => UNCHANGED doc
    /\ ~(UNCHANGED doc) => ui'.confirm = "yes"

\* what a step does to one who has unsaved text: whether it asked, whether
\* the buffer or the process is gone after it.  (A => B is written B \/ ~A
\* where A is a step of the program and B is a test on the two states.)
C2_Step ==
    modified =>
        /\ C2_Discards \/ ~DestructiveRequest
        \* Ctrl+Q and File > Exit only raise the exit window
        /\ (alive' /\ UNCHANGED doc) \/ ~ExitRequest
        /\ (pc = "input" /\ ~show_exit_confirm /\ show_exit_confirm')
             => alive' /\ UNCHANGED doc
        \* the process ends on one of the window's two exit buttons only
        /\ ~alive' =>
             ui'.click \in {"Save and Exit", "Discard and Exit"}
        \* Cancel
        /\ (show_exit_confirm /\ ~show_exit_confirm') =>
             alive' /\ UNCHANGED doc

\* C2: while modified, New, Open (menu, hotkey, file tree) and Exit neither
\* replace the buffer nor end the process unless the user confirmed (Yes,
\* Save and Exit, Discard and Exit); No and Cancel leave content,
\* original_content, file_path and modified as they were, process running.
C2_ConfirmBeforeDiscard == [][C2_Step]_vars

\* the user answered No with unsaved text in the buffer: it is still there
C2_Witness ==
    /\ alive /\ modified
    /\ ui.confirm = "no"
    /\ content # <<>>

\* what C3 says of a step that calls run_external_tool for a tool whose
\* *_use_open_file is set
C3_Rule ==
    /\ call'.active =>
         /\ ~modified
         /\ IsSome(file_path)
         /\ IsSome(fs[Unwrap(file_path)])
         /\ call'.target_path = Unwrap(file_path)
         /\ call'.argv[Len(call'.argv)] = Unwrap(file_path)
         /\ call'.temp_file = None
    /\ modified =>
         /\ tool_output' = Some(SaveFirstMsg)
         /\ show_tool_output'
         /\ ~SpawnTried /\ ~call'.active
    /\ file_path = None =>
         /\ tool_output' # None
         /\ show_tool_output'
         /\ ~SpawnTried /\ ~call'.active
    /\ ~SpawnTried =>
         /\ ~call'.active
         /\ UNCHANGED <<doc, fs>>

\* C3 as stated: every run with use_open_file set that finds the buffer
\* modified is refused with the save-first message.
C3_Original ==
    [][(RunsTool /\ UseOpenFile(ToolAt)) => C3_Rule]_vars

\* C3, amended: a run with use_open_file set and a non-empty command spawns
\* only when modified is false and file_path names an existing file, and
\* targets that path; with modified true it is refused with the save-first
\* message, with no file open it is refused with a message; a refusal spawns
\* nothing and leaves content, original_content, file_path, modified alone.
C3_OpenFileRun ==
    [][(RunsTool /\ UseOpenFile(ToolAt) /\ Unwrap(CommandOf(ToolAt)) # <<>>)
          => C3_Rule]_vars

\* a run on the open file was refused because of unsaved changes
C3_Witness ==
    /\ ui.outcome = "save_first"
    /\ modified
    /\ IsSome(file_path)
    /\ tool_output = Some(SaveFirstMsg)
    /\ ~call.active

\* C4: a run with modifies_content whose child exits successfully and whose
\* target, read back, differs from the buffer: content becomes the target's
\* content, original_content is untouched, modified is content #
\* original_content.
C4_FormatReplacesBuffer ==
    [][(alive /\ pc = "tool_wait") =>
          \A success \in BOOLEAN, io_ok \in BOOLEAN, left \in Leavings :
             (/\ call.modifies_content /\ success /\ io_ok
              /\ IsSome(left) /\ Unwrap(left) # content
              /\ ToolReturnsWith(success, io_ok, left))
             => /\ content' = Unwrap(left)
                /\ original_content' = original_content
                /\ file_path' = file_path
                /\ modified' = (content' # original_content')]_vars

\* a format run on the open file changed file and buffer: the buffer now
\* differs from the text last saved by the editor
C4_Witness ==
    /\ ui.outcome = "replaced"
    /\ modified
    /\ IsSome(file_path)
    /\ fs[Unwrap(file_path)] = Some(content)
    /\ content # original_content

\* the ways a step of the tool runner fails
C5_Failures ==
    {"empty_command", "save_first", "no_file_open", "not_a_file",
     "temp_failed", "spawn_failed", "exit_failure", "reread_failed"}

\* C5: a tool run that fails (empty command, refused, temp file, spawn,
\* exit status, read-back) leaves content, original_content, file_path and
\* modified as they were.
C5_FailedRunKeepsBuffer ==
    [][/\ (Requested /\ ui'.outcome \in C5_Failures) => UNCHANGED doc
       /\ (alive /\ pc = "tool_wait") =>
            \A success \in BOOLEAN, io_ok \in BOOLEAN, left \in Leavings :
               (/\ \/ ~success
                   \/ call.modifies_content /\ (~io_ok \/ left = None)
                /\ ToolReturnsWith(success, io_ok, left))
               => /\ UNCHANGED doc
                  /\ ui'.outcome \in C5_Failures]_vars

\* a formatter that rewrote its target and then exited unsuccessfully
C5_Witness ==
    /\ ui.outcome = "exit_failure"
    /\ IsSome(file_path)
    /\ config.tools.format_use_open_file
    /\ fs[Unwrap(file_path)] # Some(content)
    /\ ~modified

\* C6: with an empty list as the tool's command, a run sets tool_output to
\* "Configured tool command is empty.", spawns nothing, creates no temp file
\* and changes neither the buffer nor the process.
C6_EmptyCommand ==
    [][(Requested /\ CommandOf(ToolAt) = Some(<<>>))
          => /\ tool_output' = Some("Configured tool command is empty.")
             /\ ui'.outcome = "empty_command"
             /\ ~call'.active
             /\ fs' = fs
             /\ alive'
             /\ UNCHANGED doc]_vars

\* an empty command met a modified buffer and use_open_file
C6_Witness ==
    /\ ui.outcome = "empty_command"
    /\ tool_output = Some(EmptyCommandMsg)
    /\ config.tools.lint_use_open_file
    /\ modified

\* the message run_external_tool owes for the way the step ended
C7_Message(outcome) ==
    CASE outcome = "no_command" ->
           IF ToolAt = "lint" THEN NoLintMsg ELSE NoFormatMsg
      [] outcome = "empty_command" -> EmptyCommandMsg
      [] outcome = "save_first" -> SaveFirstMsg
      [] outcome = "no_file_open" -> NoFileOpenMsg
      [] outcome = "not_a_file" -> NotAFileMsg(Unwrap(file_path))
      [] outcome = "temp_failed" -> TempFailedMsg
      [] outcome = "spawn_failed" ->
           SpawnFailedMsg(Unwrap(CommandOf(ToolAt)))
      [] outcome = "exit_failure" ->
           ReportMsg(call.command, call.target_path, FALSE)
      [] outcome \in {"reported", "same", "replaced"} ->
           ReportMsg(call.command, call.target_path, TRUE)
      [] outcome = "reread_failed" ->
           ReportMsg(call.command, call.target_path, TRUE)
           \o FormatNote(call.target_path)

\* C7: every lint or format request, however it ends, ends with
\* show_tool_output true and tool_output holding the message of that run,
\* and the process is still running.
C7_EveryRunReports ==
    [][(\/ Requested /\ ui'.outcome # "spawned"
        \/ alive /\ pc = "tool_wait")
          => /\ show_tool_output'
             /\ tool_output' = Some(C7_Message(ui'.outcome))
             /\ alive'
             /\ ~call'.active
             /\ pc' \in {"input", "pend_format"}]_vars

\* the formatter removed its target: the run still ends in a report
C7_Witness ==
    /\ ui.outcome = "reread_failed"
    /\ show_tool_output
    /\ tool_output # None
    /\ alive /\ pc = "input"

\* C8: with use_open_file not set the target is a fresh temp file holding
\* the buffer (unsaved edits included); the run changes neither file_path nor
\* any file of the user, whatever the child does to its target.
C8_TempFileRun ==
    [][/\ (RunsTool /\ ~UseOpenFile(ToolAt)) =>
            /\ file_path' = file_path
            /\ \A p \in Paths : fs'[p] = fs[p]
            /\ call'.active =>
                 /\ call'.temp_file = Some(call'.target_path)
                 /\ call'.target_path \in TempPaths
                 /\ fs[call'.target_path] = None
                 /\ fs'[call'.target_path] = Some(content)
       /\ (alive /\ pc = "tool_wait" /\ IsSome(call.temp_file)) =>
            /\ file_path' = file_path
            /\ \A p \in Paths : fs'[p] = fs[p]]_vars

\* the child runs on a temp copy that holds unsaved text, not the file's
C8_Witness ==
    /\ pc = "tool_wait" /\ call.active
    /\ IsSome(call.temp_file)
    /\ modified
    /\ fs[call.target_path] = Some(content)
    /\ IsSome(file_path)
    /\ fs[Unwrap(file_path)] = Some(original_content)

\* C9: a temp file exists only while the run_external_tool call that made
\* it waits for its child; once the call has returned, by any path, none is
\* left.
C9_NoTempFileLeft ==
    \A t \in TempPaths :
        IsSome(fs[t]) =>
            pc = "tool_wait" /\ call.active /\ call.temp_file = Some(t)

\* a run on a temp file has returned, the child having failed
C9_Witness ==
    /\ pc = "input"
    /\ ui.outcome = "exit_failure"
    /\ ~config.tools.format_use_open_file
    /\ \A t \in TempPaths : fs[t] = None

\* save_file ran in this step (every step that calls it notes in ui.prompt
\* how it came by its destination)
Saves == ui'.prompt # "none"
SaveAsStep == Saves /\ (MenuSaveAs \/ PendingSaveAs)
SaveStep == Saves /\ (MenuSave \/ PendingSave)

\* C10: Save As always asks for a destination; Save writes to file_path
\* unasked when there is one, and without one does what Save As does (asks,
\* and on success sets file_path to the chosen path).
C10_SavePrompts ==
    [][/\ ui'.prompt = "dialog" \/ ~SaveAsStep
       /\ (Saves /\ IsSome(file_path)) =>
            \/ /\ ui'.prompt = "direct"
               /\ file_path' = file_path
               /\ \A p \in AllPaths \ file_path : fs'[p] = fs[p]
               /\ ui'.io = "written"
                    => fs'[Unwrap(file_path)] = Some(content)
            \/ ~SaveStep
       /\ (Saves /\ file_path = None) =>
            \/ /\ ui'.prompt = "dialog"
               /\ \A pick \in Picks, wr \in WriteResults :
                    /\ save_file(FALSE, pick, wr) <=> save_file(TRUE, pick, wr)
                    /\ (save_file(FALSE, pick, wr) /\ IsSome(pick)
                        /\ wr = "ok")
                         => /\ file_path' = pick
                            /\ fs'[Unwrap(pick)] = Some(content)
            \/ ~SaveStep]_vars

\* Save wrote the buffer to the open file without asking, and to no other
C10_Witness ==
    /\ ui.prompt = "direct"
    /\ IsSome(file_path)
    /\ fs[Unwrap(file_path)] = Some(content)
    /\ \E p \in Paths : Some(p) # file_path /\ fs[p] # Some(content)
    /\ ~modified

\* what a step whose write went through leaves behind
C11_Saved ==
    ui'.io = "written" =>
        /\ content' = content
        /\ original_content' = content
        /\ ~modified'
        /\ IsSome(file_path')
        /\ fs'[Unwrap(file_path')] = Some(content)

\* C11 as stated: a successful Save or Save As leaves original_content =
\* content, modified false, content as it was and the whole buffer in the
\* written file, and plain Save leaves file_path unchanged.
C11_Original ==
    [][/\ C11_Saved
       /\ ui'.io = "written" => (file_path' = file_path \/ ~SaveStep)]_vars

\* C11: a successful Save or Save As leaves original_content = content,
\* modified false, content as it was and the whole buffer in the written
\* file; plain Save with a file_path leaves file_path unchanged (without one
\* it sets file_path to the path chosen in the dialog).
C11_SaveSucceeds ==
    [][/\ C11_Saved
       /\ (ui'.io = "written" /\ IsSome(file_path)) =>
            (file_path' = file_path \/ ~SaveStep)
       /\ (ui'.io = "written" /\ file_path = None) =>
            (IsSome(file_path') \/ ~SaveStep)]_vars

\* Save has written a non-empty buffer to the open file
C11_Witness ==
    /\ alive
    /\ ui.io = "written" /\ ui.prompt = "direct"
    /\ content # <<>>
    /\ ~modified /\ original_content = content
    /\ fs[Unwrap(file_path)] = Some(content)

\* C12: a Save or Save As whose write fails or whose dialog is dismissed
\* leaves content, original_content, file_path and modified as they were.
C12_FailedSaveKeepsState ==
    [][(Saves /\ ui'.io \in {"write_failed", "cancelled"})
         => UNCHANGED doc]_vars

\* the write of a Save As for an untitled, modified buffer has failed: the
\* buffer is still modified and still untitled
C12_Witness ==
    /\ alive
    /\ ui.prompt = "dialog" /\ ui.io = "write_failed"
    /\ modified
    /\ file_path = None

\* C13: an Open (dialog, hotkey or file tree) whose read fails leaves
\* content, original_content, file_path and modified as they were, and the
\* process running.
C13_FailedOpenKeepsState ==
    [][ui'.io = "read_failed" => (UNCHANGED doc /\ alive')]_vars

\* the read of an Open has failed while a non-empty file was open
C13_Witness ==
    /\ alive
    /\ ui.io = "read_failed"
    /\ IsSome(file_path)
    /\ content # <<>>

----------------------------------------------------------------------------
NewStep == MenuNew \/ PendingNew

\* an empty, unmodified, untitled buffer
Cleared ==
    /\ content = <<>>
    /\ original_content = <<>>
    /\ file_path = None
    /\ ~modified

\* a New step clears the document unless it asked and was not answered Yes
C14_Step ==
    (~modified \/ ui'.confirm = "yes") => (Cleared' \/ ~NewStep)

\* C14: New clears content, original_content, file_path and modified at
\* once when the buffer is unmodified and, when it is modified, on the
\* answer Yes; a Ctrl+N request is served: it ends with the cleared document
\* or with the prompt not answered Yes.
C14_NewClears ==
    /\ [][C14_Step]_vars
    /\ (alive /\ pc = "pend_new") ~> (Cleared \/ ui.confirm = "no")

\* New was answered Yes over unsaved text: all is cleared
C14_Witness ==
    /\ alive
    /\ ui.confirm = "yes" /\ ui.io = "none"
    /\ Cleared

\* the pending-action pass is code of one call of update: once it has a flag
\* to serve it goes on to serve it
FairSpec == Spec /\ WF_vars(PendingNew)

----------------------------------------------------------------------------
\* C16: a successful Save to a path followed by a successful Open of that
\* path gives back the content from before the Save, with original_content
\* equal to it and modified false.
C16_RoundTrip ==
    [][ui'.io = "read_back" =>
         /\ ui.io = "written"
         /\ content' = content
         /\ original_content' = content
         /\ ~modified'
         /\ file_path' = file_path]_vars

\* a non-empty buffer was saved and read back
C16_Witness ==
    /\ alive
    /\ ui.io = "read_back"
    /\ content # <<>>
    /\ ~modified

----------------------------------------------------------------------------
\* C15: the process ends only in a step of an explicit exit: Ctrl+Q or
\* File > Exit while the buffer is unmodified, or the "Save and Exit" or
\* "Discard and Exit" button.  A step in which a read or a write fails, a
\* folder is rejected or the tool runner reports a failure, and which is no
\* exit button's step, leaves the process running.

\* the tool runner's failures
ToolErrors ==
    {"no_command", "empty_command", "not_a_file", "temp_failed",
     "spawn_failed", "exit_failure", "reread_failed"}

\* the step met an error
ErrorStep ==
    \/ ui'.io \in {"read_failed", "write_failed", "config_denied"}
    \/ ui'.outcome \in ToolErrors
    \/ (ui'.dir # None /\ ui'.dir \notin {Some(d) : d \in dirs})

C15_Step ==
    /\ \/ alive'
       \/ ~alive
       \/ (ui'.click \in {"Ctrl+Q", "Exit"} /\ ~modified)
       \/ ui'.click \in {"Save and Exit", "Discard and Exit"}
    /\ (ErrorStep /\ ui'.click = "none") => alive'

----------------------------------------------------------------------------
\* C17: a step that hands set_working_directory a path that is not a
\* directory changes none of working_dir, config and the config file; a step
\* that hands it a directory sets working_dir and config.working_dir to it
\* and, when the config write succeeds, leaves the config file holding the
\* new config.
C17_Step ==
    \/ ui'.dir = None
    \/ IF Unwrap(ui'.dir) \in dirs
       THEN /\ working_dir' = Unwrap(ui'.dir)
            /\ config'.working_dir = ui'.dir
            /\ config'.tools = config.tools
            /\ ui'.io = "config_written" =>
                    /\ IsSome(config_file')
                    /\ from_toml(Unwrap(config_file')) = config'
       ELSE UNCHANGED <<working_dir, config, config_file>>

C17_SetWorkingDirectory == [][C17_Step]_vars

\* a folder that is no directory has just been rejected, after the directory
\* had been changed and persisted to another one than the start's
C17_Witness ==
    /\ ui.dir = Some("a.md")
    /\ working_dir = "docs"
    /\ config.working_dir = Some("docs")
    /\ IsSome(config_file)
    /\ "working_dir" \in DOMAIN Unwrap(config_file)
    /\ Unwrap(config_file).working_dir = Some("docs")
    /\ boot.found = "parsed"

----------------------------------------------------------------------------
\* C19: when load_config found no config file, the tools run with the
\* built-in defaults and save_config was called at startup, so that after a
\* successful write the file holds the running configuration; when it found
\* a file it could not read or parse, the tools run with the same defaults
\* and the process is running.
C19_StartupDefaults ==
    /\ boot.found \in {"missing", "unreadable", "unparsable"} =>
          /\ config.tools.lint = Some(<<"rumdl", "check">>)
          /\ config.tools.format = Some(<<"rumdl", "fmt">>)
          /\ ~config.tools.lint_use_open_file
          /\ ~config.tools.format_use_open_file
          /\ alive
    /\ boot.found = "missing" => boot.saved # "none"
    /\ (boot.found = "missing" /\ boot.saved = "ok") =>
          /\ IsSome(config_file)
          /\ "syntax_error" \notin DOMAIN Unwrap(config_file)
          /\ from_toml(Unwrap(config_file)).tools = config.tools

\* started without a config file: the defaults were written out, and the
\* lint tool has been spawned with the default command
C19_Witness ==
    /\ boot.found = "missing"
    /\ boot.saved = "ok"
    /\ config_file = Some(to_toml(config))
    /\ pc = "tool_wait"
    /\ call.tool = "lint"
    /\ call.command = <<"rumdl", "check">>

----------------------------------------------------------------------------
\* C20: the child's argv is the configured command, element by element,
\* then the target path as its one last argument; the child is started in
\* working_dir whenever working_dir is a directory.
C20_Step ==
    \/ ui'.outcome # "spawned"
    \/ LET command == Unwrap(CommandOf(call'.tool))
           argv == call'.argv
       IN
       /\ Len(argv) = Len(command) + 1
       /\ \A i \in 1..Len(command) : argv[i] = command[i]
       /\ argv[Len(argv)] = call'.target_path
       /\ working_dir \in dirs => call'.cwd = Some(working_dir)

C20_SpawnArguments == [][C20_Step]_vars

\* the format tool runs on the open file in a working directory that was
\* chosen after startup
C20_Witness ==
    /\ pc = "tool_wait"
    /\ call.tool = "format"
    /\ call.argv = <<"rumdl", "fmt", "a.md">>
    /\ call.cwd = Some("docs")
    /\ boot.found = "parsed"
    /\ config.tools.format_use_open_file

----------------------------------------------------------------------------
\* C18: after every frame the preview's scroll target is current_line times
\* the frame's line height, and current_line is the primary cursor row of
\* the last frame in which the editor had focus, 0 when it never had.  A
\* frame without focus leaves current_line as it was, whatever cursor and
\* scroll offsets it comes with.
C18_Target ==
    /\ current_line = seen.row
    /\ target_scroll_y = current_line * seen.line_height

C18_Step == seen'.focus \/ current_line' = current_line

C18_ScrollSync == []C18_Target /\ [][C18_Step]_vars

\* an unfocused frame with its cursor on row 0 and both panes scrolled away
\* keeps the preview on row 1, recorded while the editor had focus
C18_Witness ==
    /\ ~seen.focus
    /\ seen.cursor = Some(0)
    /\ current_line = 1
    /\ target_scroll_y = 18
    /\ scroll_left = 14
    /\ scroll_right = 14

----------------------------------------------------------------------------
\* C21: after a successful Open (dialog, hotkey, file tree) and after a start
\* with a CLI path that could be read, file_path is set, content and
\* original_content are both the content of that file and modified is
\* false, whatever the buffer held before.

\* the buffer is the file at file_path, unmodified
Loaded(disk) ==
    /\ IsSome(file_path)
    /\ disk[Unwrap(file_path)] = Some(content)
    /\ original_content = content
    /\ ~modified

\* MarkdownApp::default leaves file_path None: one is set at the start only
\* by main, from the CLI path it has read
C21_Start == IsSome(file_path) => Loaded(fs)

C21_Step == ui'.io \in {"read", "read_back"} => Loaded(fs)'

C21_OpenReplaces == C21_Start /\ [][C21_Step]_vars

\* a modified buffer of another file was discarded for the file just opened
C21_Witness ==
    /\ ui.io = "read"
    /\ ui.confirm = "yes"
    /\ file_path = Some("b.md")
    /\ content # <<>>
    /\ fs["a.md"] = Some(<<>>)

----------------------------------------------------------------------------
\* C22: a lint run, from the call of run_lint_tool to the end of
\* run_external_tool, leaves content, original_content, file_path and
\* modified as they were, whatever the child's exit status and whatever it
\* left in its target; of the application's other fields it changes only
\* tool_output and show_tool_output (pending_lint is cleared by the pass
\* before the call).

\* the fields a lint run must leave alone
C22_Kept ==
    UNCHANGED <<doc, show_exit_confirm, pending_new, pending_open,
                pending_save, pending_save_as, pending_exit, pending_format,
                config, working_dir, config_path, view>>

C22_Step ==
    /\ (alive /\ pc = "pend_lint") => C22_Kept
    /\ (alive /\ pc = "tool_wait" /\ call.tool = "lint") => C22_Kept

C22_LintKeepsDocument == [][C22_Step]_vars

\* a successful lint run on the open file has ended, and the child left in the
\* file another text than the buffer's
C22_Witness ==
    /\ ui.outcome = "reported"
    /\ IsSome(file_path)
    /\ config.tools.lint_use_open_file
    /\ ~modified
    /\ IsSome(fs[Unwrap(file_path)])
    /\ fs[Unwrap(file_path)] # Some(content)
    /\ show_tool_output

----------------------------------------------------------------------------
\* C23: a step of the pending-action pass serves a flag that is raised and
\* clears it, and at the end of every frame all seven pending flags are
\* false.

\* the seven flags in the order the pass tests them
Flags ==
    <<pending_exit, pending_new, pending_open, pending_save, pending_save_as,
      pending_lint, pending_format>>

C23_FrameEnd ==
    (alive /\ pc = "input") => \A i \in DOMAIN Flags : ~Flags[i]

C23_Step ==
    \A i \in DOMAIN PendingPcs :
        (alive /\ pc = PendingPcs[i]) => (Flags[i] /\ ~Flags'[i])

C23_PendingConsumed == []C23_FrameEnd /\ [][C23_Step]_vars

\* a frame has ended in which the pass served pending_format (the tools are
\* run by the pass alone) and the formatter rewrote the buffer
C23_Witness ==
    /\ alive /\ pc = "input"
    /\ ui.outcome = "replaced"
    /\ \A i \in DOMAIN Flags : ~Flags[i]
    /\ file_path = None

----------------------------------------------------------------------------
\* C24: a click on "Save and Exit" ends the process only with the buffer
\* written (modified false afterwards); when its write fails or its
\* destination dialog is dismissed the process keeps running with the
\* document as it was.  The code calls exit(0) right after save_file,
\* whatever save_file did.
C24_Step ==
    ui'.click = "Save and Exit" =>
        /\ ~alive' => ~modified'
        /\ ui'.io \in {"write_failed", "cancelled"} =>
                (alive' /\ UNCHANGED doc)

C24_SaveAndExit == [][C24_Step]_vars

----------------------------------------------------------------------------
\* C25: whenever file_path is set and modified is false, content is what the
\* file at file_path holds, also after tool runs on the open file that exit
\* unsuccessfully or that run with modifies_content false after writing to
\* the file.  Stated for the steps the claim names: a file is open whose
\* unmodified buffer is what the file holds, a tool has been spawned, and the
\* step in which it returns must leave the buffer unmodified only if it is
\* still what the file holds.  The code reads the target back only when
\* modifies_content && output.status.success().

\* the unmodified buffer of a file is what the file holds
Synced ==
    (IsSome(file_path) /\ ~modified) => fs[Unwrap(file_path)] = Some(content)

C25_Step ==
    (alive /\ pc = "tool_wait" /\ IsSome(file_path) /\ ~modified /\ Synced)
        => Synced'

C25_BufferMatchesDisk == [][C25_Step]_vars

----------------------------------------------------------------------------
\* C26: when the central panel computes the preview's scroll target,
\* current_line is a row of the content it shows: less than the number of its
\* lines, 0 for an empty buffer, also in the frames after New or Open has
\* replaced the buffer by a shorter one.  The code assigns current_line only
\* in a frame in which the editor has focus and nothing clamps it when the
\* buffer is replaced.
C26_Step == CentralPanel => current_line' < Lines(content')

C26_CurrentLineValid == [][C26_Step]_vars

====
